---- MODULE Spec2Model ----
(***************************************************************************)
(* Model of drivers/media/i2c/ar0144.c, the V4L2 sub-device driver of the  *)
(* ON Semiconductor AR0144 image sensor.                                   *)
(*                                                                         *)
(* One action per sub-device operation (s_power, s_stream, get_fmt,        *)
(* set_fmt, get_selection) and one for probe.  Every operation holds       *)
(* ar0144->lock from entry to exit, so an operation is one atomic step.    *)
(* The I2C bus, the reset GPIO and msleep() are the environment: what an   *)
(* operation did to them is recorded, in program order, in the history     *)
(* variable `bus`, which is what a recording mock transport would see.     *)
(***************************************************************************)
EXTENDS Integers, Sequences, FiniteSets, TLC

VARIABLES
  rst_gpio,   \* level last driven on ar0144->rst_gpio (1 = reset asserted)
  fmt,        \* ar0144->fmt
  crop,       \* ar0144->crop
  streaming,  \* ar0144->streaming
  attached,   \* "new" before probe ran, "registered" or "failed" after it,
              \* "removed" after remove
  call,       \* history: the last operation invoked, its input and result
  bus,        \* history: GPIO, delay and I2C events of the last operation
  devState,   \* history: DeviceState of the specification (see NextDevState)
  lock,       \* ar0144->lock: "free" or the thread that holds it
  pc          \* where each thread is in the operation it is executing

vars == <<rst_gpio, fmt, crop, streaming, attached, call, bus, devState, lock, pc>>

----------------------------------------------------------------------------
(* Constants of the driver and of the kernel headers it uses.              *)

AR0144_ID_REG == \H3000
AR0144_ID_VAL == \H1356

ENODEV == 19
EINVAL == 22

MEDIA_BUS_FMT_SRGGB12_1X12 == \H3012
V4L2_FIELD_NONE == 1
V4L2_COLORSPACE_SRGB == 8
V4L2_SUBDEV_FORMAT_TRY == 0
V4L2_SUBDEV_FORMAT_ACTIVE == 1
V4L2_SEL_TGT_CROP == 0

----------------------------------------------------------------------------
(* The register programs, as static const arrays of {reg, val}.            *)

ar0144at_rev4_recommended_setting ==
  <<
    <<\H3ED6, \H3CB5>>, <<\H3ED8, \H8765>>, <<\H3EDA, \H8888>>, <<\H3EDC, \H97FF>>,
    <<\H3EF8, \H6522>>, <<\H3EFA, \H2222>>, <<\H3EFC, \H6666>>, <<\H3F00, \HAA05>>,
    <<\H3EE2, \H180E>>, <<\H3EE4, \H0808>>, <<\H3EEA, \H2A09>>, <<\H3060, \H000D>>,
    <<\H3092, \H00CF>>, <<\H3268, \H0030>>, <<\H3786, \H0060>>, <<\H3F4A, \H0F70>>,
    <<\H306E, \H4810>>, <<\H3064, \H1802>>, <<\H3EF6, \H804D>>, <<\H3180, \HC08F>>,
    <<\H30BA, \H7623>>, <<\H3176, \H0480>>, <<\H3178, \H0480>>, <<\H317A, \H0480>>,
    <<\H317C, \H0480>>
  >>

ar0144at_pll_27mhz ==
  <<
    <<\H302A, \H0006>>, <<\H302C, \H0001>>, <<\H302E, \H0004>>, <<\H3030, \H0042>>,
    <<\H3036, \H000C>>, <<\H3038, \H0001>>
  >>

ar0144at_mipi_2lane_12bit ==
  <<
    <<\H31AE, \H0202>>, <<\H31AC, \H0C0C>>, <<\H31B0, \H0042>>, <<\H31B2, \H002E>>,
    <<\H31B4, \H1665>>, <<\H31B6, \H110E>>, <<\H31B8, \H2047>>, <<\H31BA, \H0105>>,
    <<\H31BC, \H0004>>
  >>

ar0144at_1280x800_60fps ==
  <<
    <<\H3002, \H0000>>, <<\H3004, \H0004>>, <<\H3006, \H031F>>, <<\H3008, \H0503>>,
    <<\H300A, \H0339>>, <<\H300C, \H05D0>>, <<\H3012, \H0064>>, <<\H30A2, \H0001>>,
    <<\H30A6, \H0001>>, <<\H3040, \H0000>>
  >>

ar0144at_context_b_2x2_binning ==
  <<
    <<\H3040, \H1000>>, <<\H30A8, \H0003>>, <<\H3040, \H3000>>, <<\H30AE, \H0003>>
  >>

ar0144at_embedded_data_stats ==
  <<
    <<\H3064, \H1982>>
  >>

ar0144at_start_stream ==
  <<
    <<\H3028, \H0010>>, <<\H301A, \H005C>>
  >>

\* Mutation: the stop program carries the start value of the reset register.
stop_stream_start_value ==
  <<
    <<\H301A, \H005C>>
  >>

ar0144at_stop_stream ==
  <<
    <<\H301A, \H0058>>
  >>

----------------------------------------------------------------------------
(* The environment: the I2C adapter, the reset GPIO and msleep().          *)

\* One recorded event.  ev is "gpio" (n = level driven), "msleep" (n = ms),
\* "send" (buf = bytes handed to i2c_master_send, n = its return value) or
\* "recv" (buf = the caller's buffer afterwards, n = i2c_master_recv's return).
Ev(kind, buf, n) == [ev |-> kind, buf |-> buf, n |-> n]

\* What a failing transfer returns: a negative errno (-EIO, -EREMOTEIO) ...
BusErrs == {-5, -121}
\* ... or a count smaller than the one asked for (a short transfer).
ShortCounts == {0, 1}
\* Values the chip may present in its identity register.
ChipIds == {AR0144_ID_VAL, \H1256, \H0000}
\* Results of v4l2_async_register_subdev(): 0 or -ENOMEM.
RegisterResults == {0, -12}

\* The longest operation issues one transfer per entry of the start programs.
MaxXfers ==
  Len(ar0144at_pll_27mhz) + Len(ar0144at_mipi_2lane_12bit)
    + Len(ar0144at_1280x800_60fps) + Len(ar0144at_context_b_2x2_binning)
    + Len(ar0144at_embedded_data_stats) + Len(ar0144at_start_stream)

\* The adapter's behaviour during one operation: the at-th transfer of the
\* operation (0: none) returns res, every other transfer is complete.
NoFault == [at |-> 0, res |-> 0]
Faults(n) == {NoFault} \cup [at : 1..n, res : BusErrs \cup ShortCounts]

\* Return value of the n-th transfer of the operation, of count bytes.
XferResult(x, n, count) == IF n = x.at THEN x.res ELSE count

\* Number of I2C transfers recorded in a trace.
Xfers(trace) == Cardinality({i \in DOMAIN trace : trace[i].ev \in {"send", "recv"}})

----------------------------------------------------------------------------
(* Register transport.                                                     *)

\* ar0144_write_reg as the n-th transfer: a 4-byte frame, the send's return.
ar0144_write_reg(reg, val, x, n) ==
  LET regbuf == <<(reg \div 256) % 256, reg % 256, (val \div 256) % 256, val % 256>>
      ret == XferResult(x, n, 4)
  IN  [ret |-> ret, bus |-> <<Ev("send", regbuf, ret)>>]

\* ar0144_read_reg as transfers n and n+1; data is what the chip would send.
\* A receive of r >= 0 bytes overwrites only the first r bytes of buf, which
\* still holds the address.  val is assigned only on the success path.
ar0144_read_reg(reg, x, n, data) ==
  LET buf == <<(reg \div 256) % 256, reg % 256>>
      s == XferResult(x, n, 2)
      r == XferResult(x, n + 1, 2)
      got == [i \in 1..2 |-> IF i <= r THEN data[i] ELSE buf[i]]
  IN  IF s < 0
      THEN [ret |-> s, val |-> 0, bus |-> <<Ev("send", buf, s)>>]
      ELSE IF r < 0
      THEN [ret |-> r, val |-> 0, bus |-> <<Ev("send", buf, s), Ev("recv", buf, r)>>]
      ELSE [ret |-> 0, val |-> ((got[1] * 256) % 65536) + (got[2] % 256),
            bus |-> <<Ev("send", buf, s), Ev("recv", got, r)>>]

\* The two bytes a chip holding id in the addressed register puts on the bus.
ChipBytes(id) == <<id \div 256, id % 256>>

----------------------------------------------------------------------------
(* Register program runner.                                                *)

\* Mutation: the loop without its `if (ret < 0) return ret`.
RECURSIVE set_register_array_from_no_abort(_, _, _, _)
set_register_array_from_no_abort(settings, i, x, n0) ==
  IF i > Len(settings)
  THEN [ret |-> 0, bus |-> <<>>]
  ELSE LET w == ar0144_write_reg(settings[i][1], settings[i][2], x, n0 + i)
           rest == set_register_array_from_no_abort(settings, i + 1, x, n0)
       IN  [ret |-> rest.ret, bus |-> w.bus \o rest.bus]

RECURSIVE ar0144_set_register_array_from(_, _, _, _)
\* The loop of ar0144_set_register_array from entry i (1-based), n0 transfers
\* having been issued by the operation before the array.
ar0144_set_register_array_from(settings, i, x, n0) ==
  IF i > Len(settings)
  THEN [ret |-> 0, bus |-> <<>>]
  ELSE LET w == ar0144_write_reg(settings[i][1], settings[i][2], x, n0 + i)
       IN  IF w.ret < 0
           THEN w
           ELSE LET rest == ar0144_set_register_array_from(settings, i + 1, x, n0)
                IN  [ret |-> rest.ret, bus |-> w.bus \o rest.bus]

ar0144_set_register_array(settings, x, n0) ==
  ar0144_set_register_array_from(settings, 1, x, n0)

\* A call of ar0144_set_register_array following what `prev` already did.
Apply(prev, settings, x) ==
  LET p == prev
      r == ar0144_set_register_array(settings, x, Xfers(p.bus))
  IN  [ret |-> r.ret, bus |-> p.bus \o r.bus]

Msleep(prev, ms) ==
  LET p == prev
  IN  [ret |-> p.ret, bus |-> p.bus \o <<Ev("msleep", <<>>, ms)>>]

Entered == [ret |-> 0, bus |-> <<>>]

----------------------------------------------------------------------------
(* Power/reset sequencer: the body of ar0144_s_power between lock/unlock.  *)

\* Mutation: the identity value is read but not compared.
s_power_id_unchecked(on, x, id) ==
  LET asserted == <<Ev("gpio", <<>>, 1)>>
  IN  IF on = 0
      THEN [ret |-> 0, bus |-> asserted]
      ELSE
        LET up == asserted \o <<Ev("msleep", <<>>, 2), Ev("gpio", <<>>, 0),
                                Ev("msleep", <<>>, 10)>>
            rd == ar0144_read_reg(AR0144_ID_REG, x, 1, ChipBytes(id))
            read == [ret |-> rd.ret, bus |-> up \o rd.bus]
        IN  IF rd.ret < 0
            THEN read
            ELSE Apply(read, ar0144at_rev4_recommended_setting, x)

\* Mutation: the identity register is read before the settle delay.
s_power_read_before_settle(on, x, id) ==
  LET asserted == <<Ev("gpio", <<>>, 1)>>
  IN  IF on = 0
      THEN [ret |-> 0, bus |-> asserted]
      ELSE
        LET up == asserted \o <<Ev("msleep", <<>>, 2), Ev("gpio", <<>>, 0)>>
            rd == ar0144_read_reg(AR0144_ID_REG, x, 1, ChipBytes(id))
            read == [ret |-> rd.ret, bus |-> up \o rd.bus \o <<Ev("msleep", <<>>, 10)>>]
        IN  IF rd.ret < 0
            THEN read
            ELSE IF rd.val # AR0144_ID_VAL
            THEN [ret |-> -ENODEV, bus |-> read.bus]
            ELSE Apply(read, ar0144at_rev4_recommended_setting, x)

ar0144_s_power(on, x, id) ==
  LET asserted == <<Ev("gpio", <<>>, 1)>>
  IN  IF on = 0
      THEN [ret |-> 0, bus |-> asserted]
      ELSE
        LET up == asserted \o <<Ev("msleep", <<>>, 2), Ev("gpio", <<>>, 0),
                                Ev("msleep", <<>>, 10)>>
            rd == ar0144_read_reg(AR0144_ID_REG, x, 1, ChipBytes(id))
            read == [ret |-> rd.ret, bus |-> up \o rd.bus]
        IN  IF rd.ret < 0
            THEN read
            ELSE IF rd.val # AR0144_ID_VAL
            THEN [ret |-> -ENODEV, bus |-> read.bus]
            ELSE Apply(read, ar0144at_rev4_recommended_setting, x)

\* Level of the reset line after a trace, given its level before.
RstAfter(level, trace) ==
  LET g == {i \in DOMAIN trace : trace[i].ev = "gpio"}
  IN  IF g = {} THEN level
      ELSE trace[CHOOSE i \in g : \A j \in g : j <= i].n

----------------------------------------------------------------------------
(* Streaming: the body of ar0144_s_stream between lock/unlock.             *)

\* Mutation: the geometry program is applied before the lane/format program.
s_stream_geometry_first(enable, x) ==
  IF enable = 0
  THEN Apply(Entered, ar0144at_stop_stream, x)
  ELSE
    LET pll == Apply(Entered, ar0144at_pll_27mhz, x) IN
    IF pll.ret < 0 THEN pll ELSE
    LET geom == Apply(Msleep(pll, 100), ar0144at_1280x800_60fps, x) IN
    IF geom.ret < 0 THEN geom ELSE
    LET mipi == Apply(geom, ar0144at_mipi_2lane_12bit, x) IN
    IF mipi.ret < 0 THEN mipi ELSE
    LET binning == Apply(mipi, ar0144at_context_b_2x2_binning, x) IN
    IF binning.ret < 0 THEN binning ELSE
    LET stats == Apply(binning, ar0144at_embedded_data_stats, x) IN
    IF stats.ret < 0 THEN stats ELSE
    Apply(stats, ar0144at_start_stream, x)

\* Mutation: no `if (ret < 0) goto out` after the geometry program.
s_stream_geometry_unchecked(enable, x) ==
  IF enable = 0
  THEN Apply(Entered, ar0144at_stop_stream, x)
  ELSE
    LET pll == Apply(Entered, ar0144at_pll_27mhz, x) IN
    IF pll.ret < 0 THEN pll ELSE
    LET mipi == Apply(Msleep(pll, 100), ar0144at_mipi_2lane_12bit, x) IN
    IF mipi.ret < 0 THEN mipi ELSE
    LET geom == Apply(mipi, ar0144at_1280x800_60fps, x) IN
    LET binning == Apply(geom, ar0144at_context_b_2x2_binning, x) IN
    IF binning.ret < 0 THEN binning ELSE
    LET stats == Apply(binning, ar0144at_embedded_data_stats, x) IN
    IF stats.ret < 0 THEN stats ELSE
    Apply(stats, ar0144at_start_stream, x)

ar0144_s_stream(enable, x) ==
  IF enable = 0
  THEN Apply(Entered, ar0144at_stop_stream, x)
  ELSE
    LET pll == Apply(Entered, ar0144at_pll_27mhz, x) IN
    IF pll.ret < 0 THEN pll ELSE
    LET mipi == Apply(Msleep(pll, 100), ar0144at_mipi_2lane_12bit, x) IN
    IF mipi.ret < 0 THEN mipi ELSE
    LET geom == Apply(mipi, ar0144at_1280x800_60fps, x) IN
    IF geom.ret < 0 THEN geom ELSE
    LET binning == Apply(geom, ar0144at_context_b_2x2_binning, x) IN
    IF binning.ret < 0 THEN binning ELSE
    LET stats == Apply(binning, ar0144at_embedded_data_stats, x) IN
    IF stats.ret < 0 THEN stats ELSE
    Apply(stats, ar0144at_start_stream, x)

----------------------------------------------------------------------------
(* Format and selection.                                                   *)

\* struct v4l2_mbus_framefmt / struct v4l2_rect as devm_kzalloc leaves them.
ZeroFmt == [width |-> 0, height |-> 0, code |-> 0, field |-> 0, colorspace |-> 0]
ZeroRect == [left |-> 0, top |-> 0, width |-> 0, height |-> 0]
NoOut == [none |-> TRUE]

\* Which member of struct ar0144 the pad accessors hand out.
ar0144_get_pad_format(which) ==
  IF which \in {V4L2_SUBDEV_FORMAT_TRY, V4L2_SUBDEV_FORMAT_ACTIVE} THEN "fmt" ELSE "NULL"

ar0144_get_pad_crop(which) ==
  IF which \in {V4L2_SUBDEV_FORMAT_TRY, V4L2_SUBDEV_FORMAT_ACTIVE} THEN "crop" ELSE "NULL"

\* ar0144_set_format on stored format f with request req (req.format is
\* overwritten, never read): the new stored format, the return value and
\* what the caller gets back in format->format.
\* Mutation: the requested width is stored instead of the fixed one.
set_format_keeps_width(f, req) ==
  LET nf == [f EXCEPT !.width = req.width, !.height = 800,
                      !.code = MEDIA_BUS_FMT_SRGGB12_1X12,
                      !.field = V4L2_FIELD_NONE,
                      !.colorspace = V4L2_COLORSPACE_SRGB]
  IN  [ret |-> 0, fmt |-> nf, out |-> nf]

ar0144_set_format(f, req) ==
  LET nf == [f EXCEPT !.width = 1280, !.height = 800,
                      !.code = MEDIA_BUS_FMT_SRGGB12_1X12,
                      !.field = V4L2_FIELD_NONE,
                      !.colorspace = V4L2_COLORSPACE_SRGB]
  IN  [ret |-> 0, fmt |-> nf, out |-> nf]

ar0144_get_format(f, which) == [ret |-> 0, out |-> f]

ar0144_get_selection(c, target, which) ==
  IF target # V4L2_SEL_TGT_CROP
  THEN [ret |-> -EINVAL, out |-> NoOut]
  ELSE [ret |-> 0, out |-> c]

\* The request ar0144_entity_init_cfg(sd, NULL) builds: a zeroed struct
\* v4l2_subdev_format with which = ACTIVE (cfg is NULL).
InitCfgRequest ==
  [which |-> V4L2_SUBDEV_FORMAT_ACTIVE, width |-> 0, height |-> 0, code |-> 0]

----------------------------------------------------------------------------
(* Attach and detach.                                                      *)

\* Mutation: no `goto free_entity` after a failed power-up.
probe_ignores_power_failure(p, reg, f) ==
  LET b == p.bus \o <<Ev("register", <<>>, reg)>>
  IN  IF reg < 0
      THEN [ret |-> reg, bus |-> b, attached |-> "failed", fmt |-> f]
      ELSE [ret |-> 0, bus |-> b, attached |-> "registered",
            fmt |-> ar0144_set_format(f, InitCfgRequest).fmt]

\* ar0144_probe from its power-up on: p is the run of ar0144_s_power(true),
\* reg what v4l2_async_register_subdev returns, f the stored format.  The
\* call of v4l2_async_register_subdev is recorded as a "register" event.
ar0144_probe(p, reg, f) ==
  IF p.ret < 0
  THEN [ret |-> p.ret, bus |-> p.bus, attached |-> "failed", fmt |-> f]
  ELSE LET b == p.bus \o <<Ev("register", <<>>, reg)>>
       IN  IF reg < 0
           THEN [ret |-> reg, bus |-> b, attached |-> "failed", fmt |-> f]
           ELSE [ret |-> 0, bus |-> b, attached |-> "registered",
                 fmt |-> ar0144_set_format(f, InitCfgRequest).fmt]

\* ar0144_remove: returns 0 and does nothing else.
ar0144_remove(level) == [ret |-> 0, bus |-> <<>>, rst |-> level]

\* Requests the video pipeline may make.
ReqWidths == {0, 640, 1280}
ReqHeights == {480, 800}
ReqCodes == {0, MEDIA_BUS_FMT_SRGGB12_1X12}
Whences == {V4L2_SUBDEV_FORMAT_TRY, V4L2_SUBDEV_FORMAT_ACTIVE}
Requests == [which : Whences, width : ReqWidths, height : ReqHeights, code : ReqCodes]
\* The crop target and another one (V4L2_SEL_TGT_CROP_BOUNDS).
Targets == {V4L2_SEL_TGT_CROP, V4L2_SEL_TGT_CROP + 2}

----------------------------------------------------------------------------
(* The bus side of a handler is a function of its argument and of the      *)
(* adapter's behaviour alone.  The runs below are every execution of a     *)
(* handler the adapter can produce, each a record [ret, bus].              *)

\* ar0144_s_power issues the two transfers of the identity read, then one per
\* baseline entry; the baseline is out of reach when the chip's id is wrong.
PowerXfers(id) ==
  IF id = AR0144_ID_VAL THEN 2 + Len(ar0144at_rev4_recommended_setting) ELSE 2

StreamXfers(enable) == IF enable = 0 THEN Len(ar0144at_stop_stream) ELSE MaxXfers

PowerUpRuns ==
  UNION {{ar0144_s_power(1, x, id) : x \in Faults(PowerXfers(id))} : id \in ChipIds}

PowerDownRuns == {ar0144_s_power(0, NoFault, AR0144_ID_VAL)}

StartRuns == {ar0144_s_stream(1, x) : x \in Faults(StreamXfers(1))}

StopRuns == {ar0144_s_stream(0, x) : x \in Faults(StreamXfers(0))}

----------------------------------------------------------------------------
(* Vocabulary of the specification.  The driver stores no DeviceState      *)
(* (ar0144->streaming is never assigned), so the DeviceState of the        *)
(* specification is kept as a history of what the operations reported:     *)
(* power_down leaves PoweredDown; power_up leaves Verified on success,     *)
(* PoweredDown when the identity check stopped it and Faulted when the     *)
(* baseline program failed; start leaves Streaming or Faulted; stop leaves *)
(* Configured or Faulted.  Format and selection operations leave it alone. *)

BaselineAttempted(trace) == \E i \in DOMAIN trace : trace[i].ev = "send" /\ Len(trace[i].buf) = 4

NextDevState(op, arg, r) ==
  CASE op = "s_power" /\ arg = 0 -> "PoweredDown"
    [] op = "s_power" /\ arg # 0 ->
         IF r.ret >= 0 THEN "Verified"
         ELSE IF BaselineAttempted(r.bus) THEN "Faulted" ELSE "PoweredDown"
    [] op = "s_stream" /\ arg # 0 -> IF r.ret >= 0 THEN "Streaming" ELSE "Faulted"
    [] op = "s_stream" /\ arg = 0 -> IF r.ret >= 0 THEN "Configured" ELSE "Faulted"

\* The record of an invocation: operation, argument, DeviceState it was
\* invoked in, return value, output handed back to the caller.
Call(op, arg, ret, out) ==
  [op |-> op, arg |-> arg, from |-> devState, ret |-> ret, out |-> out]

----------------------------------------------------------------------------
(* State machine.                                                          *)

\* The threads: the one that runs ar0144_probe and two callers of the
\* sub-device operations.
Callers == {"a", "b"}
Threads == Callers \cup {"probe"}

\* A thread outside any operation.
Idle == [op |-> "none", arg |-> 0, at |-> "idle"]

\* After devm_kzalloc, mutex_init and devm_gpiod_get(.., GPIOD_OUT_HIGH).
Init ==
  /\ rst_gpio = 1
  /\ fmt = ZeroFmt
  /\ crop = ZeroRect
  /\ streaming = FALSE
  /\ attached = "new"
  /\ call = [op |-> "none", arg |-> 0, from |-> "Uninitialized", ret |-> 0, out |-> NoOut]
  /\ bus = <<>>
  /\ devState = "PoweredDown"
  /\ lock = "free"
  /\ pc = [t \in Threads |-> IF t = "probe" THEN [Idle EXCEPT !.op = "probe", !.at = "power"]
                                             ELSE Idle]

\* ar0144_probe from the first power-up on: ar0144_s_power(true) taking the
\* run p, then v4l2_async_register_subdev returning reg, then
\* ar0144_entity_init_cfg(sd, NULL).
Probe(p, reg) ==
  /\ attached = "new"
  /\ LET r == ar0144_probe(p, reg, fmt)
     IN  /\ bus' = r.bus
         /\ rst_gpio' = RstAfter(rst_gpio, p.bus)
         /\ devState' = NextDevState("s_power", 1, p)
         /\ attached' = r.attached
         /\ fmt' = r.fmt
         /\ call' = Call("probe", 0, r.ret, NoOut)
  /\ UNCHANGED <<crop, streaming>>

\* i2c_driver.remove of a bound (successfully probed) device.  The sub-device
\* operations are not modelled past this point.
Remove ==
  /\ attached = "registered"
  /\ LET r == ar0144_remove(rst_gpio)
     IN  /\ bus' = r.bus
         /\ rst_gpio' = r.rst
         /\ call' = Call("remove", 0, r.ret, NoOut)
  /\ attached' = "removed"
  /\ UNCHANGED <<fmt, crop, streaming, devState>>

\* core.s_power; r is the run of ar0144_s_power(on) that takes place.
SPower(on, r) ==
  /\ attached = "registered"
  /\ bus' = r.bus
  /\ rst_gpio' = RstAfter(rst_gpio, r.bus)
  /\ devState' = NextDevState("s_power", on, r)
  /\ call' = Call("s_power", on, r.ret, NoOut)
  /\ UNCHANGED <<fmt, crop, streaming, attached>>

\* video.s_stream; r is the run of ar0144_s_stream(enable) that takes place.
SStream(enable, r) ==
  /\ attached = "registered"
  /\ bus' = r.bus
  /\ devState' = NextDevState("s_stream", enable, r)
  /\ call' = Call("s_stream", enable, r.ret, NoOut)
  /\ UNCHANGED <<rst_gpio, fmt, crop, streaming, attached>>

\* pad.set_fmt
SetFormat(req) ==
  /\ attached = "registered"
  /\ ar0144_get_pad_format(req.which) = "fmt"
  /\ LET r == ar0144_set_format(fmt, req)
     IN  /\ fmt' = r.fmt
         /\ call' = Call("set_fmt", req, r.ret, r.out)
  /\ bus' = <<>>
  /\ UNCHANGED <<rst_gpio, crop, streaming, attached, devState>>

\* pad.get_fmt
GetFormat(which) ==
  /\ attached = "registered"
  /\ ar0144_get_pad_format(which) = "fmt"
  /\ LET r == ar0144_get_format(fmt, which)
     IN  call' = Call("get_fmt", which, r.ret, r.out)
  /\ bus' = <<>>
  /\ UNCHANGED <<rst_gpio, fmt, crop, streaming, attached, devState>>

\* pad.get_selection
GetSelection(target, which) ==
  /\ attached = "registered"
  /\ ar0144_get_pad_crop(which) = "crop"
  /\ LET r == ar0144_get_selection(crop, target, which)
     IN  call' = Call("get_selection", [target |-> target, which |-> which],
                      r.ret, r.out)
  /\ bus' = <<>>
  /\ UNCHANGED <<rst_gpio, fmt, crop, streaming, attached, devState>>

\* An operation run alone from its entry to its return: the mutex is free
\* before and after, and no thread is left inside an operation.
Alone == UNCHANGED <<lock, pc>>

Next ==
  \/ \E p \in PowerUpRuns, reg \in RegisterResults : Probe(p, reg) /\ Alone
  \/ \E r \in PowerDownRuns : SPower(0, r) /\ Alone
  \/ \E r \in PowerUpRuns : SPower(1, r) /\ Alone
  \/ \E r \in StopRuns : SStream(0, r) /\ Alone
  \/ \E r \in StartRuns : SStream(1, r) /\ Alone
  \/ \E req \in Requests : SetFormat(req) /\ Alone
  \/ \E which \in Whences : GetFormat(which) /\ Alone
  \/ \E target \in Targets, which \in Whences : GetSelection(target, which) /\ Alone
  \/ Remove /\ Alone

Spec == Init /\ [][Next]_vars

----------------------------------------------------------------------------
(* The register program runner on its own: ar0144_set_register_array       *)
(* applied to each program of the driver under each behaviour of the       *)
(* adapter (call.arg keeps the program and the behaviour).                 *)

Programs ==
  {ar0144at_rev4_recommended_setting, ar0144at_pll_27mhz, ar0144at_mipi_2lane_12bit,
   ar0144at_1280x800_60fps, ar0144at_context_b_2x2_binning,
   ar0144at_embedded_data_stats, ar0144at_start_stream, ar0144at_stop_stream}

RunnerApply(settings, x) ==
  /\ LET r == ar0144_set_register_array(settings, x, 0)
     IN  /\ bus' = r.bus
         /\ call' = Call("set_register_array", [settings |-> settings, x |-> x],
                         r.ret, NoOut)
  /\ UNCHANGED <<rst_gpio, fmt, crop, streaming, attached, devState, lock, pc>>

NextRunner == \E settings \in Programs : \E x \in Faults(Len(settings)) : RunnerApply(settings, x)

SpecRunner == Init /\ [][NextRunner]_vars

----------------------------------------------------------------------------
(* The operations as the threads of the video pipeline execute them, with  *)
(* ar0144->lock.  A thread enters an operation (Invoke), waits for the     *)
(* mutex where the handler takes it (Acquire), executes the handler up to  *)
(* its return (Run) and is outside again.  The attaching thread runs       *)
(* ar0144_probe: power-up, registration, then ar0144_entity_init_cfg,      *)
(* which is a call of ar0144_set_format like any other.                    *)

\* The handlers that take ar0144->lock on entry: all but
\* ar0144_get_selection.
Locks(op) == op \in {"s_power", "s_stream", "set_fmt", "get_fmt"}

\* Mutation: an error exit that returns without passing `out:`.
unlocks_only_on_success(op, ret) == Locks(op) /\ ret >= 0

\* Whether the handler releases ar0144->lock on the path that returns ret:
\* every path of a locking handler ends in mutex_unlock.
Unlocks(op, ret) == Locks(op)

\* One run of the adapter per return path of a handler: no anomaly, or an
\* error at one of the given transfers.
PathFaults(ats) == {NoFault} \cup [at : ats, res : {-5}]

\* The first transfer of each phase of ar0144_s_stream(1).
PhaseStarts ==
  LET l1 == Len(ar0144at_pll_27mhz)
      l2 == l1 + Len(ar0144at_mipi_2lane_12bit)
      l3 == l2 + Len(ar0144at_1280x800_60fps)
      l4 == l3 + Len(ar0144at_context_b_2x2_binning)
      l5 == l4 + Len(ar0144at_embedded_data_stats)
  IN  {1, l1 + 1, l2 + 1, l3 + 1, l4 + 1, l5 + 1}

\* Power-up: success, failed address write, failed identity read, failed
\* baseline write, wrong identity.
PowerUpPaths ==
  {ar0144_s_power(1, x, AR0144_ID_VAL) : x \in PathFaults({1, 2, 3})}
    \cup {ar0144_s_power(1, NoFault, \H1256)}

PowerPaths(on) == IF on = 0 THEN PowerDownRuns ELSE PowerUpPaths

\* Start: success, or a failure at the first write of one phase.
StartPaths == {ar0144_s_stream(1, x) : x \in PathFaults(PhaseStarts)}

StopPaths == {ar0144_s_stream(0, x) : x \in PathFaults({1})}

StreamPaths(enable) == IF enable = 0 THEN StopPaths ELSE StartPaths

\* The attaching thread once ar0144_probe has returned.
Done == [op |-> "probe", arg |-> 0, at |-> "done"]

\* ar0144_probe: ar0144_s_power(sd, true), before anything else can reach
\* the device; a failure ends the attach.
ProbePower(p) ==
  /\ pc["probe"].at = "power"
  /\ attached = "new"
  /\ bus' = p.bus
  /\ rst_gpio' = RstAfter(rst_gpio, p.bus)
  /\ devState' = NextDevState("s_power", 1, p)
  /\ call' = Call("s_power", 1, p.ret, NoOut)
  /\ attached' = IF p.ret < 0 THEN "failed" ELSE attached
  /\ lock' = IF Unlocks("s_power", p.ret) THEN lock ELSE "probe"
  /\ pc' = [pc EXCEPT !["probe"] = IF p.ret < 0 THEN Done ELSE [@ EXCEPT !.at = "register"]]
  /\ UNCHANGED <<fmt, crop, streaming>>

\* ar0144_probe: v4l2_async_register_subdev returning reg.  From here the
\* pipeline can call the operations; ar0144_entity_init_cfg comes next.
ProbeRegister(reg) ==
  /\ pc["probe"].at = "register"
  /\ attached' = IF reg < 0 THEN "failed" ELSE "registered"
  /\ pc' = [pc EXCEPT !["probe"] =
              IF reg < 0 THEN Done
              ELSE [op |-> "set_fmt", arg |-> InitCfgRequest, at |-> "lock"]]
  /\ UNCHANGED <<rst_gpio, fmt, crop, streaming, call, bus, devState, lock>>

\* A thread of the pipeline calls an operation of the registered device.
Invoke(t, op, arg) ==
  /\ attached = "registered"
  /\ pc[t].at = "idle"
  /\ pc' = [pc EXCEPT ![t] = [op |-> op, arg |-> arg,
                               at |-> IF Locks(op) THEN "lock" ELSE "body"]]
  /\ UNCHANGED <<rst_gpio, fmt, crop, streaming, attached, call, bus, devState, lock>>

\* mutex_lock(&ar0144->lock)
Acquire(t) ==
  /\ pc[t].at = "lock"
  /\ lock = "free"
  /\ lock' = t
  /\ pc' = [pc EXCEPT ![t].at = "body"]
  /\ UNCHANGED <<rst_gpio, fmt, crop, streaming, attached, call, bus, devState>>

\* The handler from after its mutex_lock (if it has one) to its return.
Run(t) ==
  /\ pc[t].at = "body"
  /\ LET op == pc[t].op
         arg == pc[t].arg
     IN  \/ op = "s_power" /\ \E r \in PowerPaths(arg) : SPower(arg, r)
         \/ op = "s_stream" /\ \E r \in StreamPaths(arg) : SStream(arg, r)
         \/ op = "set_fmt" /\ SetFormat(arg)
         \/ op = "get_fmt" /\ GetFormat(arg)
         \/ op = "get_selection" /\ GetSelection(arg.target, arg.which)
  /\ lock' = IF Unlocks(pc[t].op, call'.ret) THEN "free" ELSE lock
  /\ pc' = [pc EXCEPT ![t] = IF t = "probe" THEN Done ELSE Idle]

NextConc ==
  \/ \E p \in PowerUpPaths : ProbePower(p)
  \/ \E reg \in RegisterResults : ProbeRegister(reg)
  \/ \E t \in Callers :
       \/ \E on \in {0, 1} : Invoke(t, "s_power", on)
       \/ \E enable \in {0, 1} : Invoke(t, "s_stream", enable)
       \/ Invoke(t, "set_fmt", [InitCfgRequest EXCEPT !.width = 640])
       \/ Invoke(t, "get_fmt", V4L2_SUBDEV_FORMAT_ACTIVE)
       \/ Invoke(t, "get_selection",
                 [target |-> V4L2_SEL_TGT_CROP, which |-> V4L2_SUBDEV_FORMAT_ACTIVE])
  \/ \E t \in Threads : Acquire(t)
  \/ \E t \in Threads : Run(t)

SpecConc == Init /\ [][NextConc]_vars

\* Transports and delays return, so a thread inside a handler goes on to its
\* return; the mutex hands over to its waiters, so a thread that keeps
\* finding it free at times gets it; the attach goes on.
SpecConcFair ==
  /\ SpecConc
  /\ \A t \in Threads : WF_vars(Run(t)) /\ SF_vars(Acquire(t))
  /\ WF_vars(\E p \in PowerUpPaths : ProbePower(p))
  /\ WF_vars(\E reg \in RegisterResults : ProbeRegister(reg))

----------------------------------------------------------------------------
(* Properties.  What a recording mock transport expects to see.            *)

\* The 4-byte frame of the write of entry e = <<reg, val>>, high byte first.
Frame(e) == <<e[1] \div 256, e[1] % 256, e[2] \div 256, e[2] % 256>>

\* The complete write of entry e.
WriteOf(e) == Ev("send", Frame(e), 4)

\* A program written completely, entry by entry in table order.
ProgramTrace(settings) == [i \in 1..Len(settings) |-> WriteOf(settings[i])]

Delay(ms) == Ev("msleep", <<>>, ms)

IsXfer(e) == e.ev \in {"send", "recv"}

\* Every transfer of the trace moved as many bytes as it was asked to.
NoTransferFailed(trace) == \A i \in DOMAIN trace : IsXfer(trace[i]) => trace[i].n = Len(trace[i].buf)

\* The transfers of the trace that returned an error.
ErrorsIn(trace) == {i \in DOMAIN trace : IsXfer(trace[i]) /\ trace[i].n < 0}

IsStart == call.op = "s_stream" /\ call.arg # 0
IsStop == call.op = "s_stream" /\ call.arg = 0
IsPowerUp == (call.op = "s_power" /\ call.arg # 0) \/ call.op = "probe"
IsPowerDown == call.op = "s_power" /\ call.arg = 0

\* C1: a start() against a transport that never fails writes the PLL program,
\* waits the inter-phase delay, then writes the lane/format, geometry, binning,
\* embedded-data and start-stream programs, every entry once and in table
\* order; the start-stream write is the last event.
C1_StartSequence ==
  (IsStart /\ NoTransferFailed(bus)) =>
    /\ bus = ProgramTrace(ar0144at_pll_27mhz)
               \o <<Delay(100)>>
               \o ProgramTrace(ar0144at_mipi_2lane_12bit)
               \o ProgramTrace(ar0144at_1280x800_60fps)
               \o ProgramTrace(ar0144at_context_b_2x2_binning)
               \o ProgramTrace(ar0144at_embedded_data_stats)
               \o ProgramTrace(ar0144at_start_stream)
    /\ bus[Len(bus)] = WriteOf(<<\H301A, \H005C>>)

C1_Witness ==
  /\ IsStart
  /\ NoTransferFailed(bus)
  /\ Xfers(bus) = MaxXfers
  /\ call.ret = 0

\* C2: ar0144_set_register_array on a program of N entries: when the write of
\* entry k is the first the transport fails (returns an error for), exactly
\* the writes of entries 0..k were attempted, once each and in order, and the
\* transport's error is returned; when no write fails all N entries were
\* attempted once each in order and 0 is returned.
C2_RunnerStopsAtFirstFailure ==
  call.op = "set_register_array" =>
    LET settings == call.arg.settings
        x == call.arg.x
        res(i) == IF i = x.at THEN x.res ELSE 4
        attempt(i) == Ev("send", Frame(settings[i]), res(i))
    IN  IF x.at \in 1..Len(settings) /\ x.res < 0
        THEN /\ bus = [i \in 1..x.at |-> attempt(i)]
             /\ call.ret < 0
             /\ call.ret = x.res
        ELSE /\ bus = [i \in 1..Len(settings) |-> attempt(i)]
             /\ call.ret = 0

\* A 4-entry program whose entry of index 2 failed: exactly 3 writes were seen.
C2_Witness ==
  /\ call.op = "set_register_array"
  /\ Len(call.arg.settings) = 4
  /\ call.arg.x.at = 3
  /\ call.arg.x.res < 0
  /\ Len(bus) = 3
  /\ call.ret < 0

\* C3: when a write of start() fails, it is the last bus event of that start()
\* (no remaining entry of the phase and no later phase is attempted, so the
\* start-stream command is written only if nothing failed before it) and
\* start() returns that error.
C3_StartAbortsOnFailure ==
  IsStart =>
    /\ \A i \in ErrorsIn(bus) : i = Len(bus) /\ call.ret = bus[i].n /\ call.ret < 0
    /\ \A i \in DOMAIN bus :
         bus[i].buf = Frame(<<\H301A, \H005C>>) => \A j \in 1..(i - 1) : j \notin ErrorsIn(bus)
    /\ ErrorsIn(bus) = {} => call.ret = 0

\* A start() that failed in its geometry phase.
C3_Witness ==
  /\ IsStart
  /\ call.ret < 0
  /\ Xfers(bus) = Len(ar0144at_pll_27mhz) + Len(ar0144at_mipi_2lane_12bit) + 3
  /\ bus[Len(bus)].n < 0

\* The identity read of a power_up() trace: its address send and its receive.
IdSend(trace) == {i \in DOMAIN trace : trace[i].ev = "send" /\ Len(trace[i].buf) = 2}
IdRecv(trace) == {i \in DOMAIN trace : trace[i].ev = "recv"}
BaselineWrites(trace) == {i \in DOMAIN trace : trace[i].ev = "send" /\ Len(trace[i].buf) = 4}
\* The value the read composed from the receive buffer, high byte first.
IdValue(e) == e.buf[1] * 256 + e.buf[2]
IdReadFailed(trace) ==
  \/ \E i \in IdSend(trace) : trace[i].n < 0
  \/ \E i \in IdRecv(trace) : trace[i].n < 0
IdReadGave(trace, v) ==
  /\ ~IdReadFailed(trace)
  /\ \E i \in IdRecv(trace) : IdValue(trace[i]) = v

\* C4: a power_up() whose identity read failed at the transport, or returned a
\* value other than 0x1356, returns an error and wrote nothing of the baseline
\* program; baseline writes come only after a read that returned 0x1356.
C4_NoBaselineWithoutIdentity ==
  IsPowerUp =>
    /\ (IdReadFailed(bus) \/ ~IdReadGave(bus, \H1356)) =>
         (call.ret < 0 /\ BaselineWrites(bus) = {})
    /\ \A w \in BaselineWrites(bus) :
         \E i \in IdRecv(bus) : i < w /\ bus[i].n >= 0 /\ IdValue(bus[i]) = \H1356

\* A power_up() stopped by a chip that answered with another identity value.
C4_Witness ==
  /\ call.op = "s_power"
  /\ call.arg # 0
  /\ ~IdReadFailed(bus)
  /\ \E i \in IdRecv(bus) : bus[i].n = 2 /\ IdValue(bus[i]) = \H1256
  /\ call.ret = -ENODEV

\* C5: every power_up() asserts the reset line, waits more than 1 ms,
\* deasserts it, waits at least 10 ms and only then issues its first bus
\* transaction, the send of the identity register's address.
C5_ResetBeforeBus ==
  IsPowerUp =>
    /\ Len(bus) >= 5
    /\ bus[1] = Ev("gpio", <<>>, 1)
    /\ bus[2].ev = "msleep" /\ bus[2].n > 1
    /\ bus[3] = Ev("gpio", <<>>, 0)
    /\ bus[4].ev = "msleep" /\ bus[4].n >= 10
    /\ bus[5].ev = "send" /\ bus[5].buf = <<\H30, \H00>>
    /\ \A i \in DOMAIN bus : IsXfer(bus[i]) => i >= 5

\* A power_up() that went all the way through the baseline program.
C5_Witness ==
  /\ call.op = "s_power"
  /\ call.arg # 0
  /\ call.ret = 0
  /\ Cardinality(BaselineWrites(bus)) = Len(ar0144at_rev4_recommended_setting)

\* The single format the sensor supports.
IsFixedFormat(f) ==
  /\ f.width = 1280
  /\ f.height = 800
  /\ f.code = \H3012

\* C6: a start() invoked in a DeviceState other than Verified or Configured,
\* and a stop() invoked in one other than Streaming, fails with an error,
\* puts nothing on the bus and leaves DeviceState as it was.
C6_InvalidSourceRejected ==
  LET invalid == \/ IsStart /\ call.from \notin {"Verified", "Configured"}
                 \/ IsStop /\ call.from # "Streaming"
  IN  invalid => (call.ret < 0 /\ Xfers(bus) = 0 /\ devState = call.from)

\* C7: a set_format invoked while the device is Streaming fails (Busy) and
\* leaves the stored format as it was; invoked after a successful stop() it
\* succeeds and returns the fixed format.
C7_BusyWhileStreaming ==
  call.op = "set_fmt" =>
    /\ call.from = "Streaming" => call.ret < 0
    /\ call.from = "Configured" => (call.ret = 0 /\ IsFixedFormat(call.out))

C10_FaultedRefuses ==
  [][ (IsStart /\ call.ret < 0 /\ devState = "Faulted" /\ call'.op = "s_stream")
        => (call'.ret < 0 /\ Xfers(bus') = 0 /\ devState' = "Faulted") ]_vars

\* C11: a power_down() invoked while Streaming first writes the stop-stream
\* command (0x301A := 0x0058) and then asserts the reset line; invoked in any
\* other state it asserts the reset line, issues no transfer and returns 0.
C11_PowerDownStopsStream ==
  IsPowerDown =>
    /\ call.from = "Streaming" =>
         /\ Len(bus) = 2
         /\ bus[1].ev = "send" /\ bus[1].buf = <<\H30, \H1A, \H00, \H58>>
         /\ bus[2] = Ev("gpio", <<>>, 1)
    /\ call.from # "Streaming" =>
         (bus = <<Ev("gpio", <<>>, 1)>> /\ call.ret = 0)

\* A power_up() whose identity read was complete and gave another value.
IdMismatch(trace) ==
  /\ ~IdReadFailed(trace)
  /\ \E i \in IdRecv(trace) : trace[i].n = 2 /\ IdValue(trace[i]) # \H1356

\* C14: a power_up() against a chip answering with a wrong identity value
\* returns the mismatch error and leaves the device PoweredDown, the state
\* power_down() leaves it in: reset line asserted, neither Verified nor Faulted.
C14_MismatchLeavesPoweredDown ==
  (IsPowerUp /\ IdMismatch(bus)) =>
    /\ call.ret = -ENODEV
    /\ devState = "PoweredDown"
    /\ rst_gpio = 1

\* C15: the value returned for a program that failed at entry k tells k (and
\* so the register) apart from any other entry failing with the same bus
\* error: no other failing index of the same program returns the same value.
C15_FailureIdentifiesEntry ==
  LET settings == call.arg.settings
      x == call.arg.x
  IN  (call.op = "set_register_array" /\ x.at \in 1..Len(settings) /\ x.res < 0) =>
        \A k \in (1..Len(settings)) \ {x.at} :
          ar0144_set_register_array(settings, [at |-> k, res |-> x.res], 0).ret # call.ret

\* C16: a transfer that moved fewer bytes than asked for (4 for a write, 2 and
\* 2 for a read) makes the operation fail: it is the operation's last
\* transfer and the operation returns an error.
C16_ShortTransferIsError ==
  \A i \in DOMAIN bus :
    (IsXfer(bus[i]) /\ bus[i].n >= 0 /\ bus[i].n < Len(bus[i].buf)) =>
      (call.ret < 0 /\ \A j \in DOMAIN bus : IsXfer(bus[j]) => j <= i)

\* C17: get_crop with the crop target returns the full sensor array, the
\* 1280x800 rectangle at the origin; with any other target it fails.
C17_DefaultCrop ==
  call.op = "get_selection" =>
    IF call.arg.target = V4L2_SEL_TGT_CROP
    THEN call.ret = 0 /\ call.out = [left |-> 0, top |-> 0, width |-> 1280, height |-> 800]
    ELSE call.ret < 0

\* A power-up trace that went through: no transfer returned an error, the
\* identity read gave 0x1356 and the whole baseline program was written.
PowerUpSucceeded(trace) ==
  /\ ErrorsIn(trace) = {}
  /\ IdReadGave(trace, \H1356)
  /\ Cardinality(BaselineWrites(trace)) = Len(ar0144at_rev4_recommended_setting)

Registrations(trace) == {i \in DOMAIN trace : trace[i].ev = "register"}

\* C13: attach powers the device up before it registers it with the video
\* pipeline; when the power-up fails (identity read error, mismatch, baseline
\* failure) attach returns that error and never registers the device, and no
\* operation is ever invoked on a device whose attach failed.
C13_AttachPowersUpFirst ==
  /\ call.op = "probe" =>
       /\ ~PowerUpSucceeded(bus) =>
            /\ call.ret < 0
            /\ \A i \in ErrorsIn(bus) : call.ret = bus[i].n
            /\ IdMismatch(bus) => call.ret = -ENODEV
            /\ Registrations(bus) = {}
            /\ attached = "failed"
       /\ \A i \in Registrations(bus) :
            /\ i = Len(bus)
            /\ PowerUpSucceeded(SubSeq(bus, 1, i - 1))
  /\ attached = "registered" =>
       (call.op = "probe" => PowerUpSucceeded(SubSeq(bus, 1, Len(bus) - 1)))
  /\ attached = "failed" => call.op = "probe"

\* An attach that failed in the baseline program.
C13_Witness ==
  /\ call.op = "probe"
  /\ attached = "failed"
  /\ call.ret < 0
  /\ BaselineWrites(bus) # {}
  /\ Registrations(bus) = {}

\* C18: after detach the chip is held in reset: the reset line is asserted.
C18_DetachAssertsReset ==
  attached = "removed" => rst_gpio = 1

----------------------------------------------------------------------------
(* Concurrent callers (SpecConc, SpecConcFair).                            *)

\* Thread t is inside a handler, between its entry and its return.
Inside(t) == pc[t].at = "body"

\* C12: each public control operation holds the per-device lock for its
\* whole duration: a thread inside a handler is the holder of the lock, so
\* no two threads are inside handlers at once.
C12_OperationsHoldLock ==
  \A t \in Threads : Inside(t) => lock = t

\* C19: power_up, power_down, start, stop, set_format and get_format
\* release the lock on every return path, so the lock is held only by a
\* thread that is inside one of them and is free when none is in progress;
\* and every invocation, once made, waits for the lock only finitely long
\* and returns.
C19_ReturnsAndReleases ==
  /\ [](\A t \in Threads : lock = t <=> (Inside(t) /\ Locks(pc[t].op)))
  /\ []((\A t \in Threads : ~(Inside(t) /\ Locks(pc[t].op))) => lock = "free")
  /\ \A t \in Threads :
       (pc[t].at \in {"lock", "body"} /\ Locks(pc[t].op)) ~> (pc[t].at \in {"idle", "done"})

\* A power-up has just left by the identity-mismatch exit while the other
\* caller waits for the lock, which is free again.
C19_Witness ==
  /\ attached = "registered"
  /\ call.op = "s_power"
  /\ call.ret = -ENODEV
  /\ lock = "free"
  /\ pc["a"].at = "idle"
  /\ pc["b"].at = "lock"
  /\ pc["probe"].at = "done"

\* C20: once attach has registered the device, get_format returns the fixed
\* default format; it never returns the all-zero format.
C20_RegisteredFormatIsDefault ==
  (attached = "registered" /\ call.op = "get_fmt") => IsFixedFormat(call.out)

====
